---- MODULE Spec2Model ----
(***************************************************************************)
(* Model of src/app.py: the transportation problem solver                  *)
(* solve_transportation and the form that feeds it.                        *)
(*                                                                         *)
(* Python values are modelled as follows.  None and the empty list are the *)
(* empty tuple (both are falsy in `if capacities:`).  A list indexed from  *)
(* 0 is a function on 0..len-1.  An optional number is None or the         *)
(* one-element tuple <<v>>.  Quantities are integers: with integer data    *)
(* the constraint matrix of the transportation problem with per-route      *)
(* bounds is totally unimodular, so the linear program is feasible exactly *)
(* when an integer shipment is, and every vertex the solver can return is  *)
(* integral.                                                               *)
(***************************************************************************)
EXTENDS Integers, Sequences, FiniteSets, TLC

VARIABLES pc, costs, supply, demand, capacities, route_minimums,
          prohibited_routes, prob, raised, solverCalls, solution

vars == <<pc, costs, supply, demand, capacities, route_minimums,
          prohibited_routes, prob, raised, solverCalls, solution>>

\* ---------------------------------------------------------------- bounds
\* Largest number of routes (origins times destinations) of a request.
MaxRoutes == 2
\* Largest supply, demand, capacity or minimum entry.
MaxQty == 1
\* Largest unit cost; the smallest is its negation.
MaxCost == 1
\* Longest list of prohibited routes.
MaxProhibited == 2

\* ---------------------------------------------------------- Python values
None == <<>>
Some(v) == <<v>>
Truthy(v) == v # None

Range(len) == 0 .. (len - 1)
Routes(m, n) == Range(m) \X Range(n)
Matrices(m, n, S) == [Range(m) -> [Range(n) -> S]]

\* len(list) for a list held as a function on 0..len-1
PyLen(f) == Cardinality(DOMAIN f)

\* list[k]: Python accepts -len <= k < len and counts a negative k from the end
InRange(k, len) == (-len <= k) /\ (k < len)
Resolve(k, len) == IF k < 0 THEN k + len ELSE k

RECURSIVE SumOver(_, _)
SumOver(f, S) ==
    IF S = {} THEN 0
    ELSE LET e == CHOOSE e \in S : TRUE IN f[e] + SumOver(f, S \ {e})

\* ------------------------------------------------------------ the LpProblem
\* pulp.LpStatus
LpStatus == [s \in {0, 1, -1, -2, -3} |->
               CASE s = 0  -> "Not Solved"
                 [] s = 1  -> "Optimal"
                 [] s = -1 -> "Infeasible"
                 [] s = -2 -> "Unbounded"
                 [] s = -3 -> "Undefined"]

\* LpProblem("Transportation_Problem", LpMinimize) with its variables x and
\* objective; every LpVariable starts with varValue None.
NewProblem(c, m, n) ==
    [objective   |-> [r \in Routes(m, n) |-> c[r[1]][r[2]]],
     constraints |-> <<>>,
     status      |-> 0,
     varValue    |-> [r \in Routes(m, n) |-> None]]

\* A constraint  sum of x[r] for r in vars  (sense)  rhs,  under a name.
Constraint(name, cat, vs, sense, rhs) ==
    [name |-> name, cat |-> cat, vars |-> vs, sense |-> sense, rhs |-> rhs]

\* prob += constraint, name.  LpProblem refuses a name it already holds.
AddConstraint(b, c) ==
    IF b.raised # "none" THEN b
    ELSE IF \E k \in 1..Len(b.prob.constraints) : b.prob.constraints[k].name = c.name
         THEN [b EXCEPT !.raised = "PulpError"]
         ELSE [b EXCEPT !.prob.constraints = Append(@, c)]

RECURSIVE AddAll(_, _)
AddAll(b, cs) ==
    IF cs = <<>> THEN b ELSE AddAll(AddConstraint(b, Head(cs)), Tail(cs))

\* SupplyConstraints with the comparison turned round: a floor, not a cap
SupplyConstraintsAsFloor(s, m, n) ==
    [k \in 1..m |->
        Constraint(<<"Supply", k - 1>>, "Supply",
                   {r \in Routes(m, n) : r[1] = k - 1}, ">=", s[k - 1])]

\* for i in range(num_origins): sum_j x[i][j] <= supply[i]
SupplyConstraints(s, m, n) ==
    [k \in 1..m |->
        Constraint(<<"Supply", k - 1>>, "Supply",
                   {r \in Routes(m, n) : r[1] = k - 1}, "<=", s[k - 1])]

\* DemandConstraints with the comparison turned round: a cap, not a floor
DemandConstraintsAsCap(d, m, n) ==
    [k \in 1..n |->
        Constraint(<<"Demand", k - 1>>, "Demand",
                   {r \in Routes(m, n) : r[2] = k - 1}, "<=", d[k - 1])]

\* for j in range(num_destinations): sum_i x[i][j] >= demand[j]
DemandConstraints(d, m, n) ==
    [k \in 1..n |->
        Constraint(<<"Demand", k - 1>>, "Demand",
                   {r \in Routes(m, n) : r[2] = k - 1}, ">=", d[k - 1])]

\* One bound per route, row by row: x[i][j] (sense) bound[i][j]
RouteBounds(cat, sense, bound, m, n) ==
    [k \in 1..(m * n) |->
        LET i == (k - 1) \div n
            j == (k - 1) % n
        IN Constraint(<<cat, i, j>>, cat, {<<i, j>>}, sense, bound[i][j])]

\* if capacities: ... x[i][j] <= capacities[i][j]
CapacityConstraints(cap, m, n) ==
    IF Truthy(cap) THEN RouteBounds("Capacity", "<=", cap, m, n) ELSE <<>>

\* if route_minimums: ... x[i][j] >= route_minimums[i][j]
RouteMinConstraints(mins, m, n) ==
    IF Truthy(mins) THEN RouteBounds("RouteMin", ">=", mins, m, n) ELSE <<>>

\* for i, j in prohibited_routes: x[i][j] == 0.  x[i][j] is a Python list
\* lookup: IndexError when out of range, the route counted from the end when
\* negative.  The name keeps i and j as written.
RECURSIVE AddProhibited(_, _, _, _)
AddProhibited(b, proh, m, n) ==
    IF b.raised # "none" \/ proh = <<>> THEN b
    ELSE LET i == Head(proh)[1]
             j == Head(proh)[2]
         IN IF ~(InRange(i, m) /\ InRange(j, n))
            THEN [b EXCEPT !.raised = "IndexError"]
            ELSE AddProhibited(
                   AddConstraint(b, Constraint(<<"Prohibited", i, j>>, "Prohibited",
                                    {<<Resolve(i, m), Resolve(j, n)>>}, "==", 0)),
                   Tail(proh), m, n)

\* ProhibitedConstraints that leaves the list unread
ProhibitedIgnored(b, proh, m, n) == b

ProhibitedConstraints(b, proh, m, n) ==
    IF Truthy(proh) THEN AddProhibited(b, proh, m, n) ELSE b

\* solve_transportation up to prob.solve(): the model, or the exception raised
BuildModel(c, s, d, cap, mins, proh) ==
    LET m  == PyLen(s)
        n  == PyLen(d)
        b0 == [prob |-> NewProblem(c, m, n), raised |-> "none"]
        b1 == AddAll(b0, SupplyConstraints(s, m, n))
        b2 == AddAll(b1, DemandConstraints(d, m, n))
        b3 == AddAll(b2, CapacityConstraints(cap, m, n))
        b4 == AddAll(b3, RouteMinConstraints(mins, m, n))
    IN ProhibitedConstraints(b4, proh, m, n)

\* ------------------------------------------------------------- the solver
Satisfies(xv, c) ==
    LET lhs == SumOver(xv, c.vars)
    IN CASE c.sense = "<=" -> lhs <= c.rhs
         [] c.sense = ">=" -> lhs >= c.rhs
         [] c.sense = "==" -> lhs = c.rhs

\* Shipments with lowBound=0 that satisfy every constraint of the problem.
\* Every variable is in a supply row, so no value exceeds MaxQty.
Feasible(p) ==
    {xv \in [DOMAIN p.objective -> 0..MaxQty] :
        \A k \in 1..Len(p.constraints) : Satisfies(xv, p.constraints[k])}

Cost(obj, xv) == SumOver([r \in DOMAIN obj |-> obj[r] * xv[r]], DOMAIN obj)

OptimalSolutions(p) ==
    LET F == Feasible(p)
    IN {xv \in F : \A y \in F : Cost(p.objective, xv) <= Cost(p.objective, y)}

Values(xv) == [r \in DOMAIN xv |-> Some(xv[r])]

\* What the variables can hold after a run that found no optimum: nothing,
\* or whatever the solver wrote last.
Leftover(p) ==
    {[r \in DOMAIN p.objective |-> None]}
        \cup {Values(xv) : xv \in [DOMAIN p.objective -> 0..MaxQty]}

\* prob.solve() when the solver runs to completion
Solved(p) ==
    IF Feasible(p) = {}
    THEN {[p EXCEPT !.status = -1, !.varValue = v] : v \in Leftover(p)}
    ELSE {[p EXCEPT !.status = 1, !.varValue = Values(xv)] : xv \in OptimalSolutions(p)}

\* prob.solve() when the solver stops early or fails
NotSolved(p) == {[p EXCEPT !.status = s] : s \in {0, -3}}

\* ObjectiveValue that gives None for an objective left with no term
ObjectiveValueNoneWhenEmpty(p) ==
    LET terms == {r \in DOMAIN p.objective : p.objective[r] # 0}
    IN IF terms = {} \/ \E r \in terms : p.varValue[r] = None THEN None
       ELSE Some(SumOver([r \in terms |-> p.objective[r] * p.varValue[r][1]], terms))

\* prob.objective.value(): lpSum drops the terms whose cost is 0; None when a
\* variable of a remaining term has no value
ObjectiveValue(p) ==
    LET terms == {r \in DOMAIN p.objective : p.objective[r] # 0}
    IN IF \E r \in terms : p.varValue[r] = None THEN None
       ELSE Some(SumOver([r \in terms |-> p.objective[r] * p.varValue[r][1]], terms))

\* the dictionary solve_transportation returns
Interpret(p) ==
    [status     |-> LpStatus[p.status],
     total_cost |-> ObjectiveValue(p),
     variables  |-> p.varValue]

\* ------------------------------------------------------------ the requests
Shapes == {s \in (1..MaxRoutes) \X (1..MaxRoutes) : s[1] * s[2] <= MaxRoutes}
CostValues == (-MaxCost)..MaxCost
Quantities == 0..MaxQty

\* The form gives a matrix when the box is ticked and None otherwise
OptionalMatrices(m, n) == {None} \cup Matrices(m, n, Quantities)

\* Integers typed into the prohibited routes box: one below 0 up to one past
\* the last index
ProhibitedPairs(m, n) == ((-1)..m) \X ((-1)..n)
SeqsUpTo(S, len) == UNION {[1..k -> S] : k \in 1..len}
ProhibitedLists(m, n) == {None} \cup SeqsUpTo(ProhibitedPairs(m, n), MaxProhibited)

NoProblem == [objective |-> <<>>, constraints |-> <<>>, status |-> 0, varValue |-> <<>>]

Init ==
    /\ pc = "form"
    /\ costs = None /\ supply = None /\ demand = None
    /\ capacities = None /\ route_minimums = None /\ prohibited_routes = None
    /\ prob = NoProblem
    /\ raised = "none"
    /\ solverCalls = 0
    /\ solution = None

\* The form is filled in and "Resolver problema" is pressed
Submit ==
    /\ pc = "form"
    /\ \E s \in Shapes :
         LET m == s[1]
             n == s[2]
         IN /\ costs' \in Matrices(m, n, CostValues)
            /\ supply' \in [Range(m) -> Quantities]
            /\ demand' \in [Range(n) -> Quantities]
            /\ capacities' \in OptionalMatrices(m, n)
            /\ route_minimums' \in OptionalMatrices(m, n)
            /\ prohibited_routes' \in ProhibitedLists(m, n)
    /\ pc' = "call"
    /\ UNCHANGED <<prob, raised, solverCalls, solution>>

\* solve_transportation(costs, supply, demand, capacities, route_minimums,
\* prohibited_routes): the model is assembled, and either an exception leaves
\* the function before prob.solve() or the solver runs once and the result is
\* read back
solve_transportation ==
    /\ pc = "call"
    /\ LET b == BuildModel(costs, supply, demand, capacities, route_minimums,
                           prohibited_routes)
       IN \/ /\ b.raised # "none"
             /\ prob' = b.prob
             /\ raised' = b.raised
             /\ pc' = "raised"
             /\ UNCHANGED <<solverCalls, solution>>
          \/ /\ b.raised = "none"
             /\ prob' \in Solved(b.prob) \cup NotSolved(b.prob)
             /\ solverCalls' = solverCalls + 1
             /\ solution' = Interpret(prob')
             /\ pc' = "returned"
             /\ UNCHANGED raised
    /\ UNCHANGED <<costs, supply, demand, capacities, route_minimums,
                   prohibited_routes>>

\* The page is run again: nothing is kept from one request to the next
Rerun ==
    /\ pc \in {"returned", "raised"}
    /\ pc' = "form"
    /\ costs' = None /\ supply' = None /\ demand' = None
    /\ capacities' = None /\ route_minimums' = None /\ prohibited_routes' = None
    /\ prob' = NoProblem
    /\ raised' = "none"
    /\ solverCalls' = 0
    /\ solution' = None

Next == Submit \/ solve_transportation \/ Rerun

Spec == Init /\ [][Next]_vars

\* ------------------------------------------------------- reading the state
num_origins == PyLen(supply)
num_destinations == PyLen(demand)
AllRoutes == Routes(num_origins, num_destinations)

Total(f) == SumOver(f, DOMAIN f)

Returned == pc = "returned"
Ended == pc \in {"returned", "raised"}
\* the solver ran to a verdict (Optimal, Infeasible or Unbounded)
Completed == prob.status \in {1, -1, -2}

\* the quantity the result reports for route r
Shipped(r) == solution.variables[r][1]
HasQuantities == \A r \in AllRoutes : solution.variables[r] # None

\* the pairs of prohibited_routes as written
ListedPairs ==
    IF Truthy(prohibited_routes)
    THEN {prohibited_routes[k] : k \in 1..Len(prohibited_routes)}
    ELSE {}
ListedRoutes == ListedPairs \cap AllRoutes

CapMinConflict ==
    /\ Truthy(capacities) /\ Truthy(route_minimums)
    /\ \E r \in AllRoutes : capacities[r[1]][r[2]] < route_minimums[r[1]][r[2]]

ProhibitedMinConflict ==
    /\ Truthy(route_minimums)
    /\ \E r \in ListedRoutes : route_minimums[r[1]][r[2]] > 0

\* the constraints of category cat, and those among them that bound route r
InCat(cat) == {k \in 1..Len(prob.constraints) : prob.constraints[k].cat = cat}
BoundsOn(cat, r) == {k \in InCat(cat) : prob.constraints[k].vars = {r}}

\* Supply upper bounds and demand lower bounds, read from the request
RowsHold(xv) ==
    /\ \A i \in Range(num_origins) :
          SumOver(xv, {r \in AllRoutes : r[1] = i}) <= supply[i]
    /\ \A j \in Range(num_destinations) :
          SumOver(xv, {r \in AllRoutes : r[2] = j}) >= demand[j]

\* The shipments the request allows: non-negativity, supply, demand and the
\* categories that were supplied, read from the request and not from prob
RequestFeasible ==
    {xv \in [AllRoutes -> 0..MaxQty] :
        /\ RowsHold(xv)
        /\ Truthy(capacities) =>
              \A r \in AllRoutes : xv[r] <= capacities[r[1]][r[2]]
        /\ Truthy(route_minimums) =>
              \A r \in AllRoutes : xv[r] >= route_minimums[r[1]][r[2]]
        /\ \A r \in ListedRoutes : xv[r] = 0}

\* ------------------------------------------------------------------ claims

\* C1: when the outcome is Infeasible or Unbounded the result carries the
\* status only: the total cost is None and no route has a quantity.
C1_StatusOnly ==
    (Returned /\ solution.status \in {"Infeasible", "Unbounded"})
        => /\ solution.total_cost = None
           /\ \A r \in AllRoutes : solution.variables[r] = None

\* C2: the reported status is one of Optimal, Infeasible, Unbounded,
\* Undefined, and every raw status other than Optimal, Infeasible, Unbounded
\* is reported as Undefined.
C2_StatusNormalised ==
    Returned =>
        /\ solution.status \in {"Optimal", "Infeasible", "Unbounded", "Undefined"}
        /\ prob.status \notin {1, -1, -2} => solution.status = "Undefined"

\* C3: a request with capacity[i][j] < minimum[i][j] on some route fails
\* before the solver is invoked (any exception is taken for the
\* ConflictingConstraintError of the claim).
C3_ConflictRejected ==
    (Ended /\ CapMinConflict) => (raised # "none" /\ solverCalls = 0)

\* C4: a request whose prohibited list holds a pair outside
\* [0,m) x [0,n) fails before the solver is invoked (any exception is taken
\* for the IndexRangeError of the claim), and that pair constrains no route.
C4_IndexRejected ==
    (Ended /\ ListedPairs \ AllRoutes # {})
        => /\ raised # "none"
           /\ solverCalls = 0
           /\ \A k \in InCat("Prohibited") :
                 <<prob.constraints[k].name[2], prob.constraints[k].name[3]>> \in AllRoutes

\* what section 4.1 of the specification accepts
ValidInputs ==
    /\ ListedPairs \subseteq AllRoutes
    /\ ~CapMinConflict
    /\ ~ProhibitedMinConflict

\* C5 as stated: for valid inputs with total supply >= total demand and no
\* capacity/minimum conflict, a completed solver run gives Optimal and the
\* shipments respect every supply and every demand.
C5_AsStated ==
    (Returned /\ Completed /\ ValidInputs /\ Total(supply) >= Total(demand))
        => /\ solution.status = "Optimal"
           /\ HasQuantities
           /\ RowsHold([r \in AllRoutes |-> Shipped(r)])

\* none of the three optional arguments is given
NoOptions == ~Truthy(capacities) /\ ~Truthy(route_minimums) /\ ~Truthy(prohibited_routes)

\* C5 amended: with no capacities, minimums or prohibited routes supplied and
\* total supply >= total demand, a completed solver run gives Optimal; and
\* every Optimal result, whatever was supplied, respects every supply and
\* every demand.
C5_Amended ==
    /\ (Returned /\ Completed /\ NoOptions /\ Total(supply) >= Total(demand))
          => solution.status = "Optimal"
    /\ (Returned /\ solution.status = "Optimal")
          => /\ HasQuantities
             /\ RowsHold([r \in AllRoutes |-> Shipped(r)])
C5_Witness ==
    /\ Returned /\ NoOptions
    /\ num_origins = 2
    /\ supply = [i \in Range(2) |-> 1]
    /\ demand[0] = 1
    /\ solution.status = "Optimal"
    /\ Shipped(<<1, 0>>) = 1

\* the prohibited list, if any, names routes and names none twice
DistinctRoutesListed ==
    /\ ListedPairs \subseteq AllRoutes
    /\ Truthy(prohibited_routes) => Cardinality(ListedPairs) = Len(prohibited_routes)

\* C6: when total demand exceeds total supply the request is not rejected:
\* the model is built, the solver is invoked once, and a completed run
\* reports Infeasible.  (The prohibited pairs are distinct routes.)
C6_DemandExceedsSupply ==
    (Ended /\ Total(demand) > Total(supply) /\ DistinctRoutesListed)
        => /\ Returned
           /\ raised = "none"
           /\ solverCalls = 1
           /\ Cardinality(InCat("Supply")) = num_origins
           /\ Cardinality(InCat("Demand")) = num_destinations
           /\ Completed => solution.status = "Infeasible"
C6_Witness ==
    /\ Returned
    /\ num_destinations = 2
    /\ supply[0] = 1
    /\ Total(demand) = 2
    /\ solverCalls = 1
    /\ solution.status = "Infeasible"

\* with the listed routes at 0 no shipment fits supplies and demands
NoWayAroundProhibited ==
    /\ ListedRoutes # {}
    /\ ~\E xv \in [AllRoutes -> 0..MaxQty] :
          RowsHold(xv) /\ \A r \in ListedRoutes : xv[r] = 0

\* C7: every prohibited route carries 0 in an Optimal result, and when the
\* prohibited routes leave no shipment that meets the demands within the
\* supplies, a completed run reports Infeasible.
C7_Prohibited ==
    /\ (Returned /\ solution.status = "Optimal")
          => \A r \in ListedRoutes : solution.variables[r] = Some(0)
    /\ (Returned /\ Completed /\ NoWayAroundProhibited)
          => solution.status = "Infeasible"
C7_Witness ==
    /\ Returned
    /\ num_origins = 1 /\ num_destinations = 1
    /\ supply[0] = 1 /\ demand[0] = 1
    /\ ~Truthy(capacities) /\ ~Truthy(route_minimums)
    /\ prohibited_routes = << <<0, 0>> >>
    /\ solution.status = "Infeasible"
\* a prohibited route left at 0 while the other route carries the demand
C7_ReroutedWitness ==
    /\ Returned
    /\ num_destinations = 1 /\ num_origins = 2
    /\ prohibited_routes = << <<0, 0>> >>
    /\ costs[0][0] < costs[1][0]
    /\ solution.status = "Optimal"
    /\ Shipped(<<0, 0>>) = 0 /\ Shipped(<<1, 0>>) = 1

C8_PricedWitness ==
    /\ Returned
    /\ solution.status = "Optimal"
    /\ solution.total_cost = Some(MaxQty + MaxQty)

\* C9: an absent category puts no constraint in the model, a supplied one
\* puts exactly one bound on each route it covers and none elsewhere, and
\* the shipments the model allows are exactly those the request allows.
C9_OnlySuppliedCategories ==
    Returned =>
        /\ \A r \in AllRoutes :
              /\ Cardinality(BoundsOn("Capacity", r)) = IF Truthy(capacities) THEN 1 ELSE 0
              /\ Cardinality(BoundsOn("RouteMin", r)) = IF Truthy(route_minimums) THEN 1 ELSE 0
              /\ Cardinality(BoundsOn("Prohibited", r)) = IF r \in ListedRoutes THEN 1 ELSE 0
        /\ Feasible(prob) = RequestFeasible

\* C10: in a built model every route has at most one constraint in each of
\* the categories capacity, minimum and prohibited.
C10_OncePerCategory ==
    Returned =>
        \A cat \in {"Capacity", "RouteMin", "Prohibited"} :
            \A r \in AllRoutes : Cardinality(BoundsOn(cat, r)) <= 1

====
